---- MODULE Spec2Model ----
(***************************************************************************)
(* AffineMatrix3T<T> of GaussianLib (include/Gauss/AffineMatrix3.h), with  *)
(* T = int (AffineMatrix3i).  One matrix object is modelled: its storage   *)
(* m_[elementsSparse], the build macros, and for the call in progress its  *)
(* name, input, result, the (row, col) pairs it handed to the element      *)
(* accessors and the slots it wrote.  The object is constructed once, in   *)
(* storage of indeterminate content; calls are made one statement at a     *)
(* time, and a statement's temporaries are gone when it ends.              *)
(***************************************************************************)
EXTENDS Integers, Sequences, FiniteSets, TLC

\* Scalars handed to the matrix by its callers are drawn from 0..MaxVal.
MaxVal == 1
\* How many values a stream may push beyond the elementsSparse-th one.
MaxOverrun == 1

VARIABLES
    GS_ROW_VECTORS,        \* macro GS_ROW_VECTORS is defined
    GS_ROW_MAJOR_STORAGE,  \* macro GS_ROW_MAJOR_STORAGE is defined
    GS_ENABLE_AUTO_INIT,   \* macro GS_ENABLE_AUTO_INIT is defined
    m_,                    \* T m_[elementsSparse], indexed 0..5
    op,                    \* the operation that ran last
    arg,                   \* its input
    out,                   \* its result
    uses,                  \* (row, col) pairs it passed to operator() of the sparse matrix
    usesDense,             \* (row, col) pairs it passed to operator() of the dense result
    wrote,                 \* slots of m_ it assigned
    element_,              \* Initializer::element_ of the live initializer
    streamed,              \* the values the live initializer was given, in order
    fault                  \* "none", "assert" (GS_ASSERT failed), "ub" (access outside m_)

vars == <<GS_ROW_VECTORS, GS_ROW_MAJOR_STORAGE, GS_ENABLE_AUTO_INIT,
          m_, op, arg, out, uses, usesDense, wrote, element_, streamed, fault>>

macros == <<GS_ROW_VECTORS, GS_ROW_MAJOR_STORAGE, GS_ENABLE_AUTO_INIT>>

(***************************************************************************)
(* Dimensions                                                              *)
(***************************************************************************)
rows == 3
columns == 3

rowsSparse == IF GS_ROW_VECTORS THEN 3 ELSE 2

columnsSparse == IF GS_ROW_VECTORS THEN 2 ELSE 3

elementsSparse == rowsSparse * columnsSparse

\* The values of T the callers supply.
Vals == 0 .. MaxVal

\* Valid arguments of operator [].
Slots == 0 .. (elementsSparse - 1)

\* The contents m_ can have.
Matrices == [Slots -> Vals]

\* (row, col) pairs that pass both GS_ASSERTs of operator ().
InRange(row, col) == row < rowsSparse /\ col < columnsSparse

\* The pairs naming the stored entries.
SparseIdx == {rc \in (0 .. rows) \X (0 .. columns) : InRange(rc[1], rc[2])}

\* (row, col) pairs of the dense TransposedType.
DenseIdx == (0 .. (rows - 1)) \X (0 .. (columns - 1))

(***************************************************************************)
(* Element access                                                          *)
(***************************************************************************)
\* A plausible slip: the row-major formula whatever the storage macro says.
CallSlot_RowMajorOnly(row, col) == row * columnsSparse + col

\* The index operator () computes into m_.
CallSlot(row, col) ==
    IF GS_ROW_MAJOR_STORAGE
    THEN row * columnsSparse + col
    ELSE col * rowsSparse + row

\* const operator () on an in-range pair.
Get(M, row, col) == M[CallSlot(row, col)]

\* operator () = v on an in-range pair.
Put(M, row, col, v) == [M EXCEPT ![CallSlot(row, col)] = v]

\* The outcomes of `M(row, col) = v`: the assignment, or for a pair out of
\* range a failed GS_ASSERT (the build compiles the check in) or, in a build
\* that elides the check, a write to whatever
\* m_[index] is: another slot of the matrix when the index is below
\* elementsSparse, memory outside m_ otherwise (m_ itself is then untouched,
\* and what the program does next is unknown).
StoreAt(M, row, col, v) ==
    IF InRange(row, col)
    THEN {[m |-> Put(M, row, col, v), w |-> {CallSlot(row, col)}, fault |-> "none"]}
    ELSE {[m |-> M, w |-> {}, fault |-> "assert"]}
         \cup (IF CallSlot(row, col) \in Slots
               THEN {[m |-> Put(M, row, col, v), w |-> {CallSlot(row, col)},
                      fault |-> "none"]}
               ELSE {[m |-> M, w |-> {}, fault |-> "ub"]})

\* The outcomes of reading M(row, col).
LoadAt(M, row, col) ==
    IF InRange(row, col)
    THEN {[v |-> Get(M, row, col), fault |-> "none"]}
    ELSE {[v |-> 0, fault |-> "assert"]}
         \cup (IF CallSlot(row, col) \in Slots
               THEN {[v |-> Get(M, row, col), fault |-> "none"]}
               ELSE {[v |-> x, fault |-> "ub"] : x \in Vals})

RECURSIVE StoreAll(_, _)
\* A run of assignments ws[k] = <<row, col, v>>, stopping at the first fault.
StoreAll(M, ws) ==
    IF ws = <<>>
    THEN {[m |-> M, w |-> {}, fault |-> "none"]}
    ELSE UNION { IF o.fault = "none"
                 THEN {[p EXCEPT !.w = p.w \cup o.w] : p \in StoreAll(o.m, Tail(ws))}
                 ELSE {o}
                 : o \in StoreAt(M, ws[1][1], ws[1][2], ws[1][3]) }

RECURSIVE LoadAll(_, _)
\* A run of reads rs[k] = <<row, col>>, stopping at the first fault.
LoadAll(M, rs) ==
    IF rs = <<>>
    THEN {[vs |-> <<>>, fault |-> "none"]}
    ELSE UNION { IF o.fault = "none"
                 THEN {[p EXCEPT !.vs = <<o.v>> \o p.vs] : p \in LoadAll(M, Tail(rs))}
                 ELSE {[vs |-> <<>>, fault |-> o.fault]}
                 : o \in LoadAt(M, rs[1][1], rs[1][2]) }

\* The (row, col) pairs of a run of accesses.
PairsOf(s) == {<<s[k][1], s[k][2]>> : k \in DOMAIN s}

\* The (row, col) At hands to operator ().
AtRowCol(a, b) == IF GS_ROW_VECTORS THEN <<b, a>> ELSE <<a, b>>

\* const At on an in-range pair.
At(M, a, b) == Get(M, AtRowCol(a, b)[1], AtRowCol(a, b)[2])

\* The order in which __GS_FOREACH_ROW_COL__ visits the entries.
ForeachRowCol ==
    [k \in 1 .. elementsSparse |->
        IF GS_ROW_MAJOR_STORAGE
        THEN <<(k - 1) \div columnsSparse, (k - 1) % columnsSparse>>
        ELSE <<(k - 1) % rowsSparse, (k - 1) \div rowsSparse>>]

(***************************************************************************)
(* Whole-matrix helpers                                                    *)
(***************************************************************************)
\* A plausible slip: the loop stops one element early.
Reset_OffByOne(M) == [i \in Slots |-> IF i < elementsSparse - 1 THEN 0 ELSE M[i]]

\* Reset()
Reset(M) == [i \in Slots |-> 0]

\* operator =
Assign(M, rhs) == [i \in Slots |-> rhs[i]]

\* A plausible slip: every visited entry gets T(1).
LoadIdentityWrites_AllOnes == [k \in 1 .. elementsSparse |->
    <<ForeachRowCol[k][1], ForeachRowCol[k][2], 1>>]

\* The assignments LoadIdentity makes, in order.
LoadIdentityWrites == [k \in 1 .. elementsSparse |->
    <<ForeachRowCol[k][1], ForeachRowCol[k][2],
      IF ForeachRowCol[k][1] = ForeachRowCol[k][2] THEN 1 ELSE 0>>]

\* What the default constructor leaves in storage that held M.
DefaultCtor(M) == IF ~GS_ENABLE_AUTO_INIT THEN Reset(M) ELSE M

\* The one fault-free outcome of a run of in-range assignments.
Stored(M, ws) == CHOOSE o \in StoreAll(M, ws) : TRUE

\* Indeterminate contents of storage nobody has written yet: one unknown
\* value of T in every slot.
RawStorage == {[i \in Slots |-> v] : v \in Vals}

\* static Identity(): `ThisType result` in storage raw, then LoadIdentity on it.
IdentityFrom(raw) == Stored(DefaultCtor(raw), LoadIdentityWrites).m

\* What Identity() can return.
IdentityOutcomes == {IdentityFrom(raw) : raw \in RawStorage}

(***************************************************************************)
(* Collaborators declared in Matrix.h, AffineMatrix.h, Determinant.h,      *)
(* Inverse.h and Vector2.h                                                 *)
(***************************************************************************)
\* The dense 3x3 form of M: the stored entries plus the implicit (0, 0, 1).
DenseOf(M) ==
    [rc \in DenseIdx |->
        IF InRange(rc[1], rc[2]) THEN Get(M, rc[1], rc[2])
        ELSE IF rc[1] = rc[2] THEN 1 ELSE 0]

\* The dense 3x3 product.
DenseMul(A, B) ==
    [rc \in DenseIdx |->
        A[<<rc[1], 0>>] * B[<<0, rc[2]>>]
      + A[<<rc[1], 1>>] * B[<<1, rc[2]>>]
      + A[<<rc[1], 2>>] * B[<<2, rc[2]>>]]

\* The stored entries of a dense matrix, as an AffineMatrix3T.
SparseOf(D) ==
    Stored([i \in Slots |-> 0],
           [k \in 1 .. elementsSparse |->
               <<ForeachRowCol[k][1], ForeachRowCol[k][2], D[ForeachRowCol[k]]>>]).m

\* Details::MulAffineMatrices(lhs, rhs)
MulAffineMatrices(lhs, rhs) == SparseOf(DenseMul(DenseOf(lhs), DenseOf(rhs)))

\* Gs::Determinant of the dense form.
Determinant(M) ==
    LET D == DenseOf(M) IN
      D[<<0, 0>>] * (D[<<1, 1>>] * D[<<2, 2>>] - D[<<1, 2>>] * D[<<2, 1>>])
    - D[<<0, 1>>] * (D[<<1, 0>>] * D[<<2, 2>>] - D[<<1, 2>>] * D[<<2, 0>>])
    + D[<<0, 2>>] * (D[<<1, 0>>] * D[<<2, 1>>] - D[<<1, 1>>] * D[<<2, 0>>])

\* Division of T = int: the quotient truncated towards zero.
TDiv(a, b) ==
    LET abs(x) == IF x < 0 THEN -x ELSE x
        q == abs(a) \div abs(b)
    IN IF (a < 0) = (b < 0) THEN q ELSE -q

\* Gs::Inverse(inv, m): FALSE and inv untouched when the determinant is zero,
\* otherwise TRUE and inv the inverse of m (exact when the determinant is 1 or -1).
GsInverse(inv, m) ==
    LET d == Determinant(m) IN
    IF d = 0
    THEN [ok |-> FALSE, inv |-> inv]
    ELSE [ok |-> TRUE,
          inv |-> Stored(inv, <<
              <<AtRowCol(0, 0)[1], AtRowCol(0, 0)[2], TDiv(At(m, 1, 1), d)>>,
              <<AtRowCol(0, 1)[1], AtRowCol(0, 1)[2], TDiv(-At(m, 0, 1), d)>>,
              <<AtRowCol(1, 0)[1], AtRowCol(1, 0)[2], TDiv(-At(m, 1, 0), d)>>,
              <<AtRowCol(1, 1)[1], AtRowCol(1, 1)[2], TDiv(At(m, 0, 0), d)>>,
              <<AtRowCol(0, 2)[1], AtRowCol(0, 2)[2],
                TDiv(At(m, 0, 1) * At(m, 1, 2) - At(m, 0, 2) * At(m, 1, 1), d)>>,
              <<AtRowCol(1, 2)[1], AtRowCol(1, 2)[2],
                TDiv(At(m, 0, 2) * At(m, 1, 0) - At(m, 0, 0) * At(m, 1, 2), d)>> >>).m]

\* Indeterminate contents of a dense matrix nobody has written yet.
DenseRaw == {[rc \in DenseIdx |-> v] : v \in Vals}

\* The default constructor of the dense Matrix: zero-filled unless the
\* library-wide macro leaves the storage as it is.
DenseDefaultCtor(raw) == IF ~GS_ENABLE_AUTO_INIT THEN [rc \in DenseIdx |-> 0] ELSE raw

\* (row, col) pairs that pass the GS_ASSERTs of the dense Matrix's operator ().
DenseInRange(row, col) == row < rows /\ col < columns

(***************************************************************************)
(* Members of AffineMatrix3T as functions of the matrix                    *)
(***************************************************************************)
\* The parameters of the full-component constructor: <<i, j>> names m<i><j>.
CtorParams == IF GS_ROW_VECTORS THEN (1 .. 3) \X (1 .. 2) ELSE (1 .. 2) \X (1 .. 3)

\* A plausible slip: the last argument is assigned to the entry before it.
CtorWrites_LastRepeated(a) ==
    IF GS_ROW_VECTORS
    THEN << <<0, 0, a[<<1, 1>>]>>, <<0, 1, a[<<1, 2>>]>>,
            <<1, 0, a[<<2, 1>>]>>, <<1, 1, a[<<2, 2>>]>>,
            <<2, 0, a[<<3, 1>>]>>, <<2, 0, a[<<3, 2>>]>> >>
    ELSE << <<0, 0, a[<<1, 1>>]>>, <<0, 1, a[<<1, 2>>]>>, <<0, 2, a[<<1, 3>>]>>,
            <<1, 0, a[<<2, 1>>]>>, <<1, 1, a[<<2, 2>>]>>, <<1, 1, a[<<2, 3>>]>> >>

\* The assignments of the full-component constructor, in order; a[<<i, j>>] is
\* the argument named m<i><j>.
CtorWrites(a) ==
    IF GS_ROW_VECTORS
    THEN << <<0, 0, a[<<1, 1>>]>>, <<0, 1, a[<<1, 2>>]>>,
            <<1, 0, a[<<2, 1>>]>>, <<1, 1, a[<<2, 2>>]>>,
            <<2, 0, a[<<3, 1>>]>>, <<2, 1, a[<<3, 2>>]>> >>
    ELSE << <<0, 0, a[<<1, 1>>]>>, <<0, 1, a[<<1, 2>>]>>, <<0, 2, a[<<1, 3>>]>>,
            <<1, 0, a[<<2, 1>>]>>, <<1, 1, a[<<2, 2>>]>>, <<1, 2, a[<<2, 3>>]>> >>

\* A plausible slip: both components go to At(0, 2).
SetPositionWrites_SameRow(position) ==
    << <<AtRowCol(0, 2)[1], AtRowCol(0, 2)[2], position[1]>>,
       <<AtRowCol(0, 2)[1], AtRowCol(0, 2)[2], position[2]>> >>

\* The assignments of SetPosition(position), position = <<x, y>>.
SetPositionWrites(position) ==
    << <<AtRowCol(0, 2)[1], AtRowCol(0, 2)[2], position[1]>>,
       <<AtRowCol(1, 2)[1], AtRowCol(1, 2)[2], position[2]>> >>

\* A plausible slip: the y component is read from At(0, 2) as well.
GetPositionReads_SameRow == <<AtRowCol(0, 2), AtRowCol(0, 2)>>

\* The reads of GetPosition.
GetPositionReads == <<AtRowCol(0, 2), AtRowCol(1, 2)>>

\* GetPosition() of a matrix M, as Vector2T <<x, y>>.
GetPosition(M) == (CHOOSE o \in LoadAll(M, GetPositionReads) : TRUE).vs

\* The reads of Trace.
TraceReads == << <<0, 0>>, <<1, 1>> >>

\* The reads Transposed makes of *this, in order.
TransposedReads == ForeachRowCol

\* The (row, col) pairs Transposed passes to its result: (c, r) for each
\* visited entry, then (i, rowsSparse) for i below columnsSparse.
TransposedDenseUses ==
    {<<ForeachRowCol[k][2], ForeachRowCol[k][1]>> : k \in 1 .. elementsSparse}
    \cup {<<i, rowsSparse>> : i \in 0 .. (columnsSparse - 1)}

\* The dense matrix Transposed returns: result(c, r) = (*this)(r, c) on top
\* of the default-constructed result.  The second loop evaluates
\* result(i, rowsSparse) and assigns nothing.
Transposed(M, raw) ==
    [rc \in DenseIdx |->
        IF InRange(rc[2], rc[1]) THEN Get(M, rc[2], rc[1])
        ELSE DenseDefaultCtor(raw)[rc]]

\* MakeInverse on M: `in{*this}` built in storage raw, then Gs::Inverse(*this, in).
MakeInverse(M, raw) == GsInverse(M, Assign(raw, M))

\* A plausible slip: Inverse inverts a default-constructed matrix, not a copy.
Inverse_NoCopy(M, rawInv, rawIn) == MakeInverse(DefaultCtor(rawInv), rawIn).inv

\* Inverse() of M: `inv{*this}` built in storage rawInv, inv.MakeInverse(), inv.
Inverse(M, rawInv, rawIn) == MakeInverse(Assign(rawInv, M), rawIn).inv

\* Right-hand sides given to operator *, operator *= and operator =:
\* Identity(), Identity() moved to the position (MaxVal, 0), the matrix of
\* MaxVal in every entry, and the zero matrix.
Operands ==
    IdentityOutcomes
    \cup {Stored(I, SetPositionWrites(<<MaxVal, 0>>)).m : I \in IdentityOutcomes}
    \cup {[i \in Slots |-> MaxVal], [i \in Slots |-> 0]}

\* The stored matrix stays within the values the model enumerates.
Representable(M) == \A i \in Slots : M[i] \in Vals

(***************************************************************************)
(* State machine                                                           *)
(***************************************************************************)
Init ==
    /\ GS_ROW_VECTORS \in BOOLEAN
    /\ GS_ROW_MAJOR_STORAGE \in BOOLEAN
    /\ GS_ENABLE_AUTO_INIT \in BOOLEAN
    /\ m_ \in RawStorage
    /\ op = "storage"
    /\ arg = <<>>
    /\ out = <<>>
    /\ uses = {}
    /\ usesDense = {}
    /\ wrote = {}
    /\ element_ = 0
    /\ streamed = <<>>
    /\ fault = "none"

\* The effect of one call on the model's variables.
Step(name, a, M, o, u, ud, w, f, e, s) ==
    /\ op' = name
    /\ arg' = a
    /\ m_' = M
    /\ out' = o
    /\ uses' = u
    /\ usesDense' = ud
    /\ wrote' = w
    /\ fault' = f
    /\ element_' = e
    /\ streamed' = s
    /\ UNCHANGED macros

\* A call on the constructed object can be made.
Ready == op = "idle" /\ fault = "none"

\* AffineMatrix3T()
ConstructDefault ==
    /\ op = "storage"
    /\ Step("AffineMatrix3T()", <<>>, DefaultCtor(m_), <<>>, {}, {},
            IF ~GS_ENABLE_AUTO_INIT THEN Slots ELSE {}, "none", 0, <<>>)

\* AffineMatrix3T(const ThisType& rhs)
ConstructCopy ==
    /\ op = "storage"
    /\ \E rhs \in Matrices :
        Step("AffineMatrix3T(rhs)", rhs, Assign(m_, rhs), <<>>, {}, {}, Slots, "none", 0, <<>>)

\* AffineMatrix3T(m11, m12, ...)
ConstructComponents ==
    /\ op = "storage"
    /\ \E a \in [CtorParams -> Vals] :
        \E o \in StoreAll(m_, CtorWrites(a)) :
            Step("AffineMatrix3T(m11..)", a, o.m, <<>>, PairsOf(CtorWrites(a)), {},
                 o.w, o.fault, 0, <<>>)

\* AffineMatrix3T(UninitializeTag)
ConstructUninitialized ==
    /\ op = "storage"
    /\ Step("AffineMatrix3T(UninitializeTag)", <<>>, m_, <<>>, {}, {}, {}, "none", 0, <<>>)

\* M(row, col) = v
CallAssign ==
    /\ Ready
    /\ \E rc \in DenseIdx, v \in Vals :
        \E o \in StoreAt(m_, rc[1], rc[2], v) :
            Step("operator()=", [row |-> rc[1], col |-> rc[2], v |-> v], o.m, <<>>,
                 {rc}, {}, o.w, o.fault, 0, <<>>)

\* M(row, col) read
CallRead ==
    /\ Ready
    /\ \E rc \in DenseIdx :
        \E o \in LoadAt(m_, rc[1], rc[2]) :
            Step("operator()", [row |-> rc[1], col |-> rc[2]], m_, o.v,
                 {rc}, {}, {}, o.fault, 0, <<>>)

\* M[element] = v
IndexAssign ==
    /\ Ready
    /\ \E element \in 0 .. elementsSparse, v \in Vals :
        IF element < elementsSparse
        THEN Step("operator[]=", [element |-> element, v |-> v],
                  [m_ EXCEPT ![element] = v], <<>>, {}, {}, {element}, "none", 0, <<>>)
        ELSE \E f \in {"assert", "ub"} :
             Step("operator[]=", [element |-> element, v |-> v], m_, <<>>, {}, {}, {},
                  f, 0, <<>>)

\* M[element] read
IndexRead ==
    /\ Ready
    /\ \E element \in 0 .. elementsSparse :
        IF element < elementsSparse
        THEN Step("operator[]", [element |-> element], m_, m_[element],
                  {}, {}, {}, "none", 0, <<>>)
        ELSE \/ Step("operator[]", [element |-> element], m_, 0, {}, {}, {},
                     "assert", 0, <<>>)
             \/ \E x \in Vals :
                 Step("operator[]", [element |-> element], m_, x, {}, {}, {},
                      "ub", 0, <<>>)

\* lhs * rhs with *this on either side
Multiply ==
    /\ Ready
    /\ \E B \in Operands :
        \/ Step("operator*", [lhs |-> m_, rhs |-> B], m_, MulAffineMatrices(m_, B),
                {}, {}, {}, "none", 0, <<>>)
        \/ Step("operator*", [lhs |-> B, rhs |-> m_], m_, MulAffineMatrices(B, m_),
                {}, {}, {}, "none", 0, <<>>)

\* *this *= rhs
MultiplyAssign ==
    /\ Ready
    /\ \E rhs \in Operands :
        /\ Representable(MulAffineMatrices(m_, rhs))
        /\ Step("operator*=", rhs, Assign(m_, MulAffineMatrices(m_, rhs)), <<>>,
                {}, {}, Slots, "none", 0, <<>>)

\* *this = rhs
AssignFrom ==
    /\ Ready
    /\ \E rhs \in Operands :
        Step("operator=", rhs, Assign(m_, rhs), <<>>, {}, {}, Slots, "none", 0, <<>>)

\* Reset()
ResetCall ==
    /\ Ready
    /\ Step("Reset", <<>>, Reset(m_), <<>>, {}, {}, Slots, "none", 0, <<>>)

\* LoadIdentity()
LoadIdentity ==
    /\ Ready
    /\ \E o \in StoreAll(m_, LoadIdentityWrites) :
        Step("LoadIdentity", <<>>, o.m, <<>>, PairsOf(LoadIdentityWrites), {},
             o.w, o.fault, 0, <<>>)

\* Identity()
IdentityCall ==
    /\ Ready
    /\ \E raw \in RawStorage :
        \E o \in StoreAll(DefaultCtor(raw), LoadIdentityWrites) :
            Step("Identity", <<>>, m_, o.m, PairsOf(LoadIdentityWrites), {},
                 {}, o.fault, 0, <<>>)

\* Transposed()
TransposedCall ==
    /\ Ready
    /\ \E raw \in DenseRaw :
        \E o \in LoadAll(m_, TransposedReads) :
            \E f \in (IF o.fault # "none" THEN {o.fault}
                      ELSE IF \E rc \in TransposedDenseUses : ~DenseInRange(rc[1], rc[2])
                      THEN {"assert", "none"}
                      ELSE {"none"}) :
               Step("Transposed", <<>>, m_,
                    IF f = "none" THEN Transposed(m_, raw) ELSE <<>>,
                    PairsOf(TransposedReads), TransposedDenseUses, {}, f, 0, <<>>)

\* Determinant()
DeterminantCall ==
    /\ Ready
    /\ Step("Determinant", <<>>, m_, Determinant(m_), {}, {}, {}, "none", 0, <<>>)

\* Trace()
Trace ==
    /\ Ready
    /\ \E o \in LoadAll(m_, TraceReads) :
        Step("Trace", <<>>, m_,
             IF o.fault = "none" THEN o.vs[1] + o.vs[2] + 1 ELSE 0,
             PairsOf(TraceReads), {}, {}, o.fault, 0, <<>>)

\* Inverse()
InverseCall ==
    /\ Ready
    /\ \E rawInv \in RawStorage, rawIn \in RawStorage :
        Step("Inverse", <<>>, m_, Inverse(m_, rawInv, rawIn), {}, {}, {}, "none", 0, <<>>)

\* MakeInverse()
MakeInverseCall ==
    /\ Ready
    /\ \E raw \in RawStorage :
        /\ Representable(MakeInverse(m_, raw).inv)
        /\ Step("MakeInverse", <<>>, MakeInverse(m_, raw).inv, MakeInverse(m_, raw).ok,
                {}, {}, IF MakeInverse(m_, raw).ok THEN Slots ELSE {}, "none", 0, <<>>)

\* SetPosition(position)
SetPosition ==
    /\ Ready
    /\ \E position \in Vals \X Vals :
        \E o \in StoreAll(m_, SetPositionWrites(position)) :
            Step("SetPosition", position, o.m, <<>>, PairsOf(SetPositionWrites(position)),
                 {}, o.w, o.fault, 0, <<>>)

\* GetPosition()
GetPositionCall ==
    /\ Ready
    /\ \E o \in LoadAll(m_, GetPositionReads) :
        Step("GetPosition", <<>>, m_, o.vs, PairsOf(GetPositionReads), {}, {},
             o.fault, 0, <<>>)

\* A plausible slip: the value goes to m_[element_], whatever the storage order.
Comma_FlatSlot(name, e, given, nextValue) ==
    \E o \in StoreAt(m_, IF GS_ROW_MAJOR_STORAGE THEN e \div columnsSparse ELSE e % rowsSparse,
                      IF GS_ROW_MAJOR_STORAGE THEN e % columnsSparse ELSE e \div rowsSparse,
                      nextValue) :
        Step(name, nextValue, o.m, <<>>,
             {<<e \div columnsSparse, e % columnsSparse>>}, {}, o.w, o.fault,
             IF o.fault = "none" THEN e + 1 ELSE e, Append(given, nextValue))

\* Initializer::operator , (nextValue) with element_ = e
Comma(name, e, given, nextValue) ==
    \E o \in StoreAt(m_, e \div columnsSparse, e % columnsSparse, nextValue) :
        Step(name, nextValue, o.m, <<>>,
             {<<e \div columnsSparse, e % columnsSparse>>}, {}, o.w, o.fault,
             IF o.fault = "none" THEN e + 1 ELSE e, Append(given, nextValue))

\* matrix << firstValue
StreamBegin ==
    /\ Ready
    /\ \E firstValue \in Vals : Comma("operator<<", 0, <<>>, firstValue)

\* (matrix << ...), nextValue
StreamNext ==
    /\ op \in {"operator<<", "operator,"}
    /\ fault = "none"
    /\ element_ < elementsSparse + MaxOverrun
    /\ \E nextValue \in Vals : Comma("operator,", element_, streamed, nextValue)

\* The statement ends: its result and its Initializer are gone.
EndOfStatement ==
    /\ op \notin {"storage", "idle"}
    /\ fault = "none"
    /\ Step("idle", <<>>, m_, <<>>, {}, {}, {}, "none", 0, <<>>)

Next ==
    \/ ConstructDefault
    \/ ConstructCopy
    \/ ConstructComponents
    \/ ConstructUninitialized
    \/ CallAssign
    \/ CallRead
    \/ IndexAssign
    \/ IndexRead
    \/ Multiply
    \/ MultiplyAssign
    \/ AssignFrom
    \/ ResetCall
    \/ LoadIdentity
    \/ IdentityCall
    \/ TransposedCall
    \/ DeterminantCall
    \/ Trace
    \/ InverseCall
    \/ MakeInverseCall
    \/ SetPosition
    \/ GetPositionCall
    \/ StreamBegin
    \/ StreamNext
    \/ EndOfStatement

Spec == Init /\ [][Next]_vars

(***************************************************************************)
(* Properties                                                              *)
(***************************************************************************)

\* C1: Transposed() equals, on all 9 entries, the transpose of the dense 3x3
\* form of the matrix; the entries that come from the implicit row or column
\* are 0, 0, 1.
C1_TransposedIsTransposeOfDense ==
    (op = "Transposed" /\ fault = "none") =>
        \A rc \in DenseIdx : out[rc] = DenseOf(m_)[<<rc[2], rc[1]>>]

\* C2: after SetPosition(p), GetPosition() returns p; SetPosition writes
\* exactly the two translation entries ((0,2), (1,2) with column vectors,
\* (2,0), (2,1) with row vectors) and the four other entries keep their values.
C2_SetPositionGetPosition ==
    [][op' = "SetPosition" =>
        LET tx == IF GS_ROW_VECTORS THEN <<2, 0>> ELSE <<0, 2>>
            ty == IF GS_ROW_VECTORS THEN <<2, 1>> ELSE <<1, 2>>
        IN /\ fault' = "none"
           /\ GetPosition(m_') = arg'
           /\ m_'[CallSlot(tx[1], tx[2])] = arg'[1]
           /\ m_'[CallSlot(ty[1], ty[2])] = arg'[2]
           /\ wrote' = {CallSlot(tx[1], tx[2]), CallSlot(ty[1], ty[2])}
           /\ \A r \in 0 .. 1, c \in 0 .. 1 : Get(m_', r, c) = Get(m_, r, c)
    ]_vars

\* C2 happens: SetPosition((1, 0)) on a row-vector, row-major matrix whose
\* linear part is not zero.
C2_Witness ==
    /\ op = "SetPosition"
    /\ GS_ROW_VECTORS
    /\ GS_ROW_MAJOR_STORAGE
    /\ arg = <<1, 0>>
    /\ Get(m_, 1, 1) = 1
    /\ Get(m_, 2, 0) = 1
    /\ Get(m_, 2, 1) = 0

\* C3: for every valid (row, col), M(row, col) is the slot M[flatIndexOf(row,
\* col)], flatIndexOf being row*columnsSparse + col with row-major storage and
\* col*rowsSparse + row with column-major storage; the mapping is a bijection
\* from the valid pairs onto 0..5.
C3_CallIsFlatIndex ==
    [][LET flatIndexOf(row, col) ==
               IF GS_ROW_MAJOR_STORAGE THEN row * columnsSparse + col
               ELSE col * rowsSparse + row
       IN /\ (op' = "operator()=" /\ InRange(arg'.row, arg'.col)) =>
                 /\ fault' = "none"
                 /\ m_' = [m_ EXCEPT ![flatIndexOf(arg'.row, arg'.col)] = arg'.v]
          /\ (op' = "operator()" /\ InRange(arg'.row, arg'.col)) =>
                 /\ fault' = "none"
                 /\ out' = m_[flatIndexOf(arg'.row, arg'.col)]
          /\ (op' = "operator[]=" /\ arg'.element < elementsSparse) =>
                 m_' = [m_ EXCEPT ![arg'.element] = arg'.v]
          /\ (op' = "operator[]" /\ arg'.element < elementsSparse) =>
                 out' = m_[arg'.element]
          /\ \A p \in SparseIdx, q \in SparseIdx :
                 p # q => CallSlot(p[1], p[2]) # CallSlot(q[1], q[2])
          /\ {CallSlot(p[1], p[2]) : p \in SparseIdx} = 0 .. 5
    ]_vars

\* C3 happens: M(1, 2) = 1 in the default configuration lands in M[5].
C3_Witness ==
    /\ op = "operator()="
    /\ ~GS_ROW_MAJOR_STORAGE
    /\ ~GS_ROW_VECTORS
    /\ fault = "none"
    /\ arg = [row |-> 1, col |-> 2, v |-> 1]
    /\ m_[5] = 1
    /\ m_[4] = 0

\* C4: M * Identity() = M and Identity() * M = M, Identity() being what
\* LoadIdentity produces (1 where row = col, 0 elsewhere); after A *= B, A is
\* the old A * B.
C4_IdentityLaw ==
    [][/\ op' = "operator*" =>
            /\ arg'.rhs \in IdentityOutcomes => out' = arg'.lhs
            /\ arg'.lhs \in IdentityOutcomes => out' = arg'.rhs
       /\ op' = "Identity" =>
            \A rc \in SparseIdx : Get(out', rc[1], rc[2]) = (IF rc[1] = rc[2] THEN 1 ELSE 0)
       /\ op' = "LoadIdentity" =>
            /\ m_' \in IdentityOutcomes
            /\ \A rc \in SparseIdx : Get(m_', rc[1], rc[2]) = (IF rc[1] = rc[2] THEN 1 ELSE 0)
       /\ op' = "operator*=" => m_' = MulAffineMatrices(m_, arg')
    ]_vars

\* C4 happens: a matrix with a position and a shear is multiplied by
\* Identity() from the left.
C4_Witness ==
    /\ op = "operator*"
    /\ arg.lhs \in IdentityOutcomes
    /\ arg.rhs = m_
    /\ out = m_
    /\ m_ \notin IdentityOutcomes
    /\ Get(m_, 0, 1) = 1
    /\ GetPosition(m_) = <<1, 1>>

\* C5: a default-constructed matrix has all 6 slots zero, and is not the
\* identity, unless the skip-auto-init configuration is selected; the
\* zero-fill is skipped only in that configuration, which is the one where
\* GS_ENABLE_AUTO_INIT is defined, and with no macro defined all slots are zero.
C5_DefaultIsZero ==
    op = "AffineMatrix3T()" =>
        /\ ~GS_ENABLE_AUTO_INIT =>
              /\ \A i \in 0 .. 5 : m_[i] = 0
              /\ wrote = 0 .. 5
              /\ m_ \notin IdentityOutcomes
        /\ wrote # 0 .. 5 => GS_ENABLE_AUTO_INIT

\* C5 happens: default construction with no macro defined.
C5_Witness ==
    /\ op = "AffineMatrix3T()"
    /\ ~GS_ENABLE_AUTO_INIT
    /\ ~GS_ROW_VECTORS
    /\ ~GS_ROW_MAJOR_STORAGE
    /\ \A i \in 0 .. 5 : m_[i] = 0

\* C6: for a singular M (the four non-translation entries have determinant
\* zero, for one when all four are zero), MakeInverse() returns false and
\* leaves M unchanged, and Inverse() returns a matrix equal to M in all 6 slots.
C6_SingularInverse ==
    [][LET singular == Get(m_, 0, 0) * Get(m_, 1, 1) - Get(m_, 0, 1) * Get(m_, 1, 0) = 0
       IN /\ (op' = "MakeInverse" /\ singular) =>
                 /\ out' = FALSE
                 /\ \A i \in 0 .. 5 : m_'[i] = m_[i]
                 /\ wrote' = {}
                 /\ fault' = "none"
          /\ (op' = "Inverse" /\ singular) =>
                 /\ \A i \in 0 .. 5 : out'[i] = m_[i]
                 /\ m_' = m_
                 /\ fault' = "none"
    ]_vars

\* C6 happens: Inverse() on a matrix whose non-translation entries are all
\* zero and whose translation is not.
C6_Witness ==
    /\ op = "Inverse"
    /\ \A r \in 0 .. 1, c \in 0 .. 1 : Get(m_, r, c) = 0
    /\ GetPosition(m_) = <<1, 1>>
    /\ out = m_

\* C7: for a pure translation A (linear part identity, translation t),
\* A.GetPosition() = t, A.Inverse().GetPosition() = -t, the linear part of
\* A.Inverse() is the identity, and Inverse() does not modify A.
C7_TranslationInverse ==
    [][(/\ op' = "Inverse"
        /\ \A r \in 0 .. 1, c \in 0 .. 1 : Get(m_, r, c) = (IF r = c THEN 1 ELSE 0)) =>
          LET tx == IF GS_ROW_VECTORS THEN Get(m_, 2, 0) ELSE Get(m_, 0, 2)
              ty == IF GS_ROW_VECTORS THEN Get(m_, 2, 1) ELSE Get(m_, 1, 2)
          IN /\ GetPosition(m_) = <<tx, ty>>
             /\ GetPosition(out') = <<-tx, -ty>>
             /\ \A r \in 0 .. 1, c \in 0 .. 1 : Get(out', r, c) = (IF r = c THEN 1 ELSE 0)
             /\ m_' = m_
    ]_vars

\* C7 happens: the inverse of the translation by (1, 0) is the translation by
\* (-1, 0).
C7_Witness ==
    /\ op = "Inverse"
    /\ \A r \in 0 .. 1, c \in 0 .. 1 : Get(m_, r, c) = (IF r = c THEN 1 ELSE 0)
    /\ GetPosition(m_) = <<1, 0>>
    /\ GetPosition(out) = <<-1, 0>>

\* C8 as stated: the k-th streamed value ends up in flat slot M[k], in every
\* storage order.
C8_StreamedValueInFlatSlot ==
    (op \in {"operator<<", "operator,"} /\ fault = "none"
        /\ Len(streamed) <= elementsSparse) =>
        \A k \in 0 .. (Len(streamed) - 1) : m_[k] = streamed[k + 1]

\* C8 amended: the k-th streamed value (k in 0..5) ends up in the logical
\* entry (k / columnsSparse, k % columnsSparse), which is flat slot M[k] with
\* row-major storage and flat slot (k % columnsSparse) * rowsSparse +
\* k / columnsSparse with column-major storage; a step of the stream leaves
\* every other slot unchanged.
C8_StreamedValueInLogicalEntry ==
    [][(op' \in {"operator<<", "operator,"} /\ Len(streamed') <= elementsSparse) =>
          LET slotOf(k) == IF GS_ROW_MAJOR_STORAGE THEN k
                           ELSE (k % columnsSparse) * rowsSparse + (k \div columnsSparse)
              n == Len(streamed')
          IN /\ fault' = "none"
             /\ element_' = n
             /\ \A k \in 0 .. (n - 1) :
                   /\ m_'[slotOf(k)] = streamed'[k + 1]
                   /\ Get(m_', k \div columnsSparse, k % columnsSparse) = streamed'[k + 1]
             /\ wrote' = {slotOf(n - 1)}
             /\ \A i \in 0 .. 5 : i # slotOf(n - 1) => m_'[i] = m_[i]
    ]_vars

\* C8 happens: in the default configuration the second of six streamed
\* values is in M[2] and not in M[1].
C8_Witness ==
    /\ op = "operator,"
    /\ ~GS_ROW_MAJOR_STORAGE
    /\ ~GS_ROW_VECTORS
    /\ streamed = <<0, 1, 0, 0, 0, 0>>
    /\ m_[2] = 1
    /\ m_[1] = 0

\* C9 as stated: the constructor takes 3 pairs with column vectors and 2
\* triples with row vectors, and m_ij goes to the in-range entry (i-1, j-1).
C9_PairsWithColumnVectors ==
    op = "AffineMatrix3T(m11..)" =>
        /\ DOMAIN arg = (IF GS_ROW_VECTORS THEN (1 .. 2) \X (1 .. 3) ELSE (1 .. 3) \X (1 .. 2))
        /\ \A ij \in DOMAIN arg : ij[1] - 1 < rowsSparse /\ ij[2] - 1 < columnsSparse

\* C9 amended: the constructor takes 2 triples (m11,m12,m13 / m21,m22,m23)
\* with column vectors and 3 pairs (m11,m12 / m21,m22 / m31,m32) with row
\* vectors; each m_ij goes to the entry (i-1, j-1), which is in range, and all
\* 6 slots are written.
C9_TriplesWithColumnVectors ==
    op = "AffineMatrix3T(m11..)" =>
        /\ DOMAIN arg = (IF GS_ROW_VECTORS THEN (1 .. 3) \X (1 .. 2) ELSE (1 .. 2) \X (1 .. 3))
        /\ fault = "none"
        /\ \A ij \in DOMAIN arg :
              /\ ij[1] - 1 < rowsSparse /\ ij[2] - 1 < columnsSparse
              /\ Get(m_, ij[1] - 1, ij[2] - 1) = arg[ij]
        /\ uses = {<<ij[1] - 1, ij[2] - 1>> : ij \in DOMAIN arg}
        /\ wrote = 0 .. 5

\* C9 happens: with column vectors the third argument, m13, is entry (0, 2).
C9_Witness ==
    /\ op = "AffineMatrix3T(m11..)"
    /\ ~GS_ROW_VECTORS
    /\ arg[<<1, 3>>] = 1
    /\ arg[<<2, 1>>] = 0
    /\ Get(m_, 0, 2) = 1
    /\ Get(m_, 1, 0) = 0

\* C10: no operation of the class itself passes an out-of-range pair to an
\* element accessor, of the sparse matrix or of the dense result of
\* Transposed; the bounds assertion is reached only by streaming a 7th value,
\* which then writes no slot.
C10_OwnAccessesInRange ==
    op \notin {"operator()=", "operator()", "operator[]=", "operator[]"} =>
        /\ Len(streamed) <= elementsSparse =>
              /\ \A rc \in uses : rc[1] < rowsSparse /\ rc[2] < columnsSparse
              /\ \A rc \in usesDense : rc[1] < 3 /\ rc[2] < 3
        /\ fault = "assert" =>
              /\ op = "operator,"
              /\ Len(streamed) = elementsSparse + 1
              /\ wrote = {}

====
